---- MODULE Spec2Model ----
(***************************************************************************)
(* Model of the UK Top 50 market-structure analysis pipeline               *)
(* (src/analysis.py) and of the dashboard script that drives it            *)
(* (src/app.py).                                                           *)
(*                                                                         *)
(* Text is modelled character by character: a Python str is a sequence of  *)
(* one-character strings, so <<"a","&","b">> is "a&b".  A table (pandas    *)
(* DataFrame) is a sequence of rows; a row is a function from column names *)
(* to values, so adding a column changes the row's domain.  A float ratio  *)
(* n/d is the record [num |-> n, den |-> d] and is compared exactly.       *)
(*                                                                         *)
(* A date is a day number.  The columns total_tracks and popularity are    *)
(* read by no function of src/analysis.py and by none of the dashboard     *)
(* statements modelled here (they feed charts only); they are left out.    *)
(***************************************************************************)
EXTENDS Integers, Sequences, FiniteSets

VARIABLES pc, track_data, artist_data, renorm_data, filtered_data,
          filtered_artist_data, kpi_result, network_graph

vars == <<pc, track_data, artist_data, renorm_data, filtered_data,
          filtered_artist_data, kpi_result, network_graph>>

\* ------------------------------------------------------------------ bounds
MaxTracks == 2
MaxParts == 4
MaxRows == 2
MaxArtists == 2

\* ------------------------------------------------------------ text helpers
Amp == <<"&">>
Sp == <<" ">>
FeatDot == <<"f", "e", "a", "t", ".">>
FtDot == <<"f", "t", ".">>
AndWord == <<"a", "n", "d">>

\* str.lower() on one character (the upper-case letters of the alphabet used)
LowerChar(c) ==
  CASE c = "A" -> "a"
    [] c = "B" -> "b"
    [] OTHER -> c

Lower(s) == [i \in 1..Len(s) |-> LowerChar(s[i])]

StartsWith(s, p) == Len(s) >= Len(p) /\ SubSeq(s, 1, Len(p)) = p

DropFirst(s, n) == SubSeq(s, n + 1, Len(s))

\* the substitution as re.sub(..., count=1) would do it: only the leftmost
\* match is replaced
RECURSIVE ReSubFirstOnly(_)
ReSubFirstOnly(s) ==
  IF s = <<>> THEN <<>>
  ELSE IF StartsWith(s, FeatDot) THEN Amp \o DropFirst(s, Len(FeatDot))
  ELSE IF StartsWith(s, FtDot) THEN Amp \o DropFirst(s, Len(FtDot))
  ELSE IF StartsWith(s, AndWord) THEN Amp \o DropFirst(s, Len(AndWord))
  ELSE <<Head(s)>> \o ReSubFirstOnly(Tail(s))

\* re.sub(r"feat\.|ft\.|and", "&", s): leftmost match first, alternatives
\* tried in the order written, scanning resumes after the replaced match.
RECURSIVE ReSub(_)
ReSub(s) ==
  IF s = <<>> THEN <<>>
  ELSE IF StartsWith(s, FeatDot) THEN Amp \o ReSub(DropFirst(s, Len(FeatDot)))
  ELSE IF StartsWith(s, FtDot) THEN Amp \o ReSub(DropFirst(s, Len(FtDot)))
  ELSE IF StartsWith(s, AndWord) THEN Amp \o ReSub(DropFirst(s, Len(AndWord)))
  ELSE <<Head(s)>> \o ReSub(Tail(s))

\* str.replace(" ", "")
IsNotSpace(c) == c # " "

RemoveSpaces(s) == SelectSeq(s, IsNotSpace)

\* "&" in s  (also Series.str.contains("&"): the regex "&" is the literal)
Contains(s, c) == \E i \in 1..Len(s) : s[i] = c

FirstIndex(s, c) == CHOOSE i \in 1..Len(s) : s[i] = c /\ \A j \in 1..(i - 1) : s[j] # c

\* str.split("&"): every separator cuts, empty pieces are kept,
\* "".split("&") is [""]
RECURSIVE Split(_)
Split(s) ==
  IF ~Contains(s, "&") THEN <<s>>
  ELSE <<SubSeq(s, 1, FirstIndex(s, "&") - 1)>> \o Split(DropFirst(s, FirstIndex(s, "&")))

\* normalize_artist_names.clean_artist_name
clean_artist_name(name) == RemoveSpaces(ReSub(Lower(name)))

\* ------------------------------------------------------------ table helpers
\* df[col] = value on one row: the column is added, or overwritten
WithColumn(row, col, value) ==
  [c \in (DOMAIN row) \cup {col} |-> IF c = col THEN value ELSE row[c]]

\* normalize_artist_names on one row
NormalizeRow(row) ==
  WithColumn(WithColumn(row, "artist_clean", clean_artist_name(row["artist"])),
             "artist_list", Split(clean_artist_name(row["artist"])))

\* normalize_artist_names(df)
normalize_artist_names(df) == [r \in 1..Len(df) |-> NormalizeRow(df[r])]

\* the missing value pandas puts where a list had no element
NaN == <<"NaN">>

\* the row as it would stay if only the first element of the list were kept
ExplodeRowFirstOnly(row) ==
  IF Len(row["artist_list"]) = 0
  THEN <<WithColumn(row, "artist_list", NaN)>>
  ELSE <<WithColumn(row, "artist_list", row["artist_list"][1])>>

\* DataFrame.explode on one row: one row per list element in list order, the
\* other columns copied; an empty list gives one row whose value is NaN
ExplodeRow(row) ==
  IF Len(row["artist_list"]) = 0
  THEN <<WithColumn(row, "artist_list", NaN)>>
  ELSE [i \in 1..Len(row["artist_list"]) |->
          WithColumn(row, "artist_list", row["artist_list"][i])]

\* create_artist_level_table(df) = df.explode("artist_list")
RECURSIVE create_artist_level_table(_)
create_artist_level_table(df) ==
  IF df = <<>> THEN <<>>
  ELSE ExplodeRow(Head(df)) \o create_artist_level_table(Tail(df))

\* ------------------------------------------------- track feature columns
MsPerMinute == 60000

\* the missing category pd.cut gives a value outside every bin
NoBucket == "nan"

\* pd.cut(duration_minutes, bins=[0, 2, 3, 4, 10], labels=[...]): bins are
\* open on the left and closed on the right; minutes are compared as
\* duration_ms against the edge times 60000
duration_bucket(duration_ms) ==
  IF duration_ms <= 0 * MsPerMinute THEN NoBucket
  ELSE IF duration_ms <= 2 * MsPerMinute THEN "Short"
  ELSE IF duration_ms <= 3 * MsPerMinute THEN "Medium"
  ELSE IF duration_ms <= 4 * MsPerMinute THEN "Long"
  ELSE IF duration_ms <= 10 * MsPerMinute THEN "Very Long"
  ELSE NoBucket

\* add_duration_features(df): duration_minutes = duration_ms / 60000, then
\* the bucket
add_duration_features(df) ==
  [r \in 1..Len(df) |->
     WithColumn(WithColumn(df[r], "duration_minutes",
                           [num |-> df[r]["duration_ms"], den |-> MsPerMinute]),
                "duration_bucket", duration_bucket(df[r]["duration_ms"]))]

\* create_rank_groups.rank_category
rank_category(rank) == IF rank <= 10 THEN "Top 10" ELSE "Top 50"

\* create_rank_groups(df)
create_rank_groups(df) ==
  [r \in 1..Len(df) |->
     WithColumn(df[r], "rank_group", rank_category(df[r]["position"]))]

\* ------------------------------------------------------------ KPI engine
Ratio(n, d) == [num |-> n, den |-> d]

RECURSIVE SumCounts(_, _)
SumCounts(f, S) ==
  IF S = {} THEN 0
  ELSE LET x == CHOOSE y \in S : TRUE IN f[x] + SumCounts(f, S \ {x})

RECURSIVE SumSquares(_, _)
SumSquares(f, S) ==
  IF S = {} THEN 0
  ELSE LET x == CHOOSE y \in S : TRUE IN f[x] * f[x] + SumSquares(f, S \ {x})

\* the column of a table as the set of its values
ColumnValues(df, col) == {df[i][col] : i \in 1..Len(df)}

CountEq(df, col, v) == Cardinality({i \in 1..Len(df) : df[i][col] = v})

\* Series.value_counts(): count per distinct value, missing values dropped;
\* the order (descending count) is used through head() only
value_counts(df, col) ==
  [v \in ColumnValues(df, col) \ {NaN} |-> CountEq(df, col, v)]

\* Series.nunique(): number of distinct non-missing values
nunique(df, col) == Cardinality(ColumnValues(df, col) \ {NaN})

\* head(n).sum() of a series sorted by descending value: the n largest
\* entries, all of them when there are fewer than n
RECURSIVE HeadSum(_, _, _)
HeadSum(f, S, n) ==
  IF n = 0 \/ S = {} THEN 0
  ELSE LET m == CHOOSE x \in S : \A y \in S : f[x] >= f[y]
       IN  f[m] + HeadSum(f, S \ {m}, n - 1)

TopN == 5

\* line 84: track_df["is_collaboration"] = track_df["artist"].str.contains("&")
is_collaboration(row) == Contains(row["artist"], "&")

\* line 84 mutates the caller's table: the column is written into track_df
WithIsCollaboration(track_df) ==
  [r \in 1..Len(track_df) |->
     WithColumn(track_df[r], "is_collaboration", is_collaboration(track_df[r]))]

total_tracks(track_df) == Len(track_df)

\* lines 73-76: artist_share = artist_frequency / total_tracks,
\* ACI = (artist_share ** 2).sum()
artist_concentration_index(track_df, artist_df) ==
  LET f == value_counts(artist_df, "artist_list")
  IN  Ratio(SumSquares(f, DOMAIN f), total_tracks(track_df) * total_tracks(track_df))

\* line 77: artist_share.head(5).sum()
top5_artist_share(track_df, artist_df) ==
  LET f == value_counts(artist_df, "artist_list")
  IN  Ratio(HeadSum(f, DOMAIN f, TopN), total_tracks(track_df))

\* line 91: value_counts(normalize=True) of album_type
album_distribution(track_df) ==
  [t \in ColumnValues(track_df, "album_type") |->
     Ratio(CountEq(track_df, "album_type", t), total_tracks(track_df))]

\* lines 96-105, for a table with at least one row
KpiMapping(track_df, artist_df) ==
  [ACI |-> artist_concentration_index(track_df, artist_df),
   Top5Share |-> top5_artist_share(track_df, artist_df),
   UniqueArtists |-> nunique(artist_df, "artist_list"),
   DiversityScore |-> Ratio(nunique(artist_df, "artist_list"), total_tracks(track_df)),
   CollaborationRatio |->
     Ratio(CountEq(WithIsCollaboration(track_df), "is_collaboration", TRUE),
           total_tracks(track_df)),
   ExplicitShare |-> Ratio(CountEq(track_df, "is_explicit", TRUE), total_tracks(track_df)),
   AlbumDistribution |-> album_distribution(track_df),
   ContentVariety |-> Ratio(nunique(track_df, "song"), total_tracks(track_df))]

NoKpis == [status |-> "none", error |-> "none", kpis |-> <<>>, artist_frequency |-> <<>>]

\* calculate_market_kpis(track_df, artist_df): what the call returns or raises.
\* With no row, lines 73-77 run on empty pandas series without raising, and
\* line 81 divides the Python int nunique() by the Python int len(): 0 / 0
\* raises ZeroDivisionError before line 84 is reached.
calculate_market_kpis(track_df, artist_df) ==
  IF total_tracks(track_df) = 0
  THEN [status |-> "raised", error |-> "ZeroDivisionError",
        kpis |-> <<>>, artist_frequency |-> <<>>]
  ELSE [status |-> "returned", error |-> "none",
        kpis |-> KpiMapping(track_df, artist_df),
        artist_frequency |-> value_counts(artist_df, "artist_list")]

\* the caller's track table after the call
TrackTableAfterKpis(track_df) ==
  IF total_tracks(track_df) = 0 THEN track_df ELSE WithIsCollaboration(track_df)

\* ------------------------------------------------ collaboration graph
EmptyGraph == [nodes |-> {}, edges |-> {}]

\* nx.Graph.add_edge(u, v): both endpoints become nodes; the edge is
\* unordered and kept once; u = v is a self-loop, kept as {u}
add_edge(graph, u, v) ==
  [nodes |-> graph.nodes \cup {u, v}, edges |-> graph.edges \cup {{u, v}}]

\* lines 160-162 for one list: j runs over i+1 .. len-1 inside i over 0 .. len-1
RECURSIVE AddPairs(_, _, _, _)
AddPairs(graph, artists, i, j) ==
  IF i > Len(artists) THEN graph
  ELSE IF j > Len(artists) THEN AddPairs(graph, artists, i + 1, i + 2)
  ELSE AddPairs(add_edge(graph, artists[i], artists[j]), artists, i, j + 1)

\* lines 158-162; the artist_list column of a track table holds the lists
\* str.split returned, so isinstance(artists, list) is true of every row
RECURSIVE AddTracks(_, _)
AddTracks(graph, df) ==
  IF df = <<>> THEN graph
  ELSE AddTracks(IF Len(Head(df)["artist_list"]) > 1
                 THEN AddPairs(graph, Head(df)["artist_list"], 1, 2)
                 ELSE graph,
                 Tail(df))

build_artist_collaboration_network(df) == AddTracks(EmptyGraph, df)

\* ------------------------------------------------------------------ inputs
\* credits as they stand in the artist column of the chart file
Credits ==
  { <<"a">>,
    <<"b">>,
    <<"a", "&", "b">>,
    <<"A", " ", "f", "e", "a", "t", ".", " ", "B">>,
    <<"a", "&", "a">>,
    <<"a", "&">>,
    <<"a", "&", "b", "&", "t">>,
    <<"d", "&", "e", "&", "f">> }

Songs == {"s1", "s2"}

AlbumTypes == {"single", "album"}

TrackTypes == {"All", "Solo Only", "Collaborations Only"}

\* the days the chart file has entries for, and the days the date picker
\* offers: it is given no min_value or max_value, so days outside the data
\* can be picked
Dates == {1, 2}

DateChoices == 0..3

\* what a chart entry holds besides the credit: song, is_explicit,
\* album_type, date, position, duration_ms.  The durations fall into each
\* bucket of add_duration_features and outside the bins; the positions on
\* both sides of the rank boundary.
ChartEntries ==
  { <<"s1", FALSE, "single", 1, 10, 150000>>,
    <<"s1", FALSE, "single", 2, 11, 150000>>,
    <<"s2", TRUE, "single", 2, 1, 100000>>,
    <<"s1", TRUE, "album", 2, 50, 200000>>,
    <<"s2", FALSE, "album", 1, 11, 300000>>,
    <<"s2", TRUE, "album", 1, 10, 700000>> }

\* a row of the table load_data returns
BaseRows ==
  { [artist |-> a, song |-> e[1], is_explicit |-> e[2], album_type |-> e[3],
     date |-> e[4], position |-> e[5], duration_ms |-> e[6]] :
      a \in Credits, e \in ChartEntries }

TablesOf(rows, lo, hi) == UNION { [1..n -> rows] : n \in lo..hi }

\* the tables load_data returns, in the columns kept here.  drop_duplicates
\* (line 19) compares every column of the file, total_tracks and popularity
\* among them, and runs before position is cast to int (line 23), so two
\* rows of the returned table may agree in all the columns kept here.
LoadedTables == TablesOf(BaseRows, 1, MaxTracks)

\* pieces a credit string is put together from
Pieces ==
  { <<"a">>, <<"b">>, <<"A">>, <<"n">>, <<"d">>, Sp, Amp, AndWord, FtDot, FeatDot }

RECURSIVE Concat(_)
Concat(parts) == IF parts = <<>> THEN <<>> ELSE Head(parts) \o Concat(Tail(parts))

\* every credit of at most MaxParts pieces; the artist field is never missing
\* after load_data (line 20)
CreditStrings == { Concat(p) : p \in TablesOf(Pieces, 1, MaxParts) }

\* artist lists a track table may carry into the expander: what
\* str.split("&") returns (line 45), a list of at least one token, where a
\* token may be the empty string and a name may repeat
ArtistNames == { <<"a">>, <<"b">>, <<>> }

ArtistLists == TablesOf(ArtistNames, 1, MaxArtists)

ListRows == { [song |-> s, artist_list |-> l] : s \in Songs, l \in ArtistLists }

\* ------------------------------------------------- the dashboard pipeline
Init ==
  /\ pc = "start"
  /\ track_data \in LoadedTables
  /\ artist_data = <<>>
  /\ renorm_data = <<>>
  /\ filtered_data = <<>>
  /\ filtered_artist_data = <<>>
  /\ kpi_result = NoKpis
  /\ network_graph = EmptyGraph

\* app.py load_full_pipeline: normalize, explode into the artist-level
\* table, then add the duration and rank columns to the track table
LoadFullPipeline ==
  /\ pc = "start"
  /\ track_data' =
       create_rank_groups(add_duration_features(normalize_artist_names(track_data)))
  /\ artist_data' = create_artist_level_table(normalize_artist_names(track_data))
  /\ pc' = "ready"
  /\ UNCHANGED <<renorm_data, filtered_data, filtered_artist_data, kpi_result,
                 network_graph>>

\* app.py lines 100-113 on one row
KeepsRow(row, date_range, album_filter, artist_filter, track_type_filter) ==
  /\ row["date"] >= date_range[1]
  /\ row["date"] <= date_range[2]
  /\ row["album_type"] \in album_filter
  /\ artist_filter # {} => row["artist"] \in artist_filter
  /\ track_type_filter = "Solo Only" => ~Contains(row["artist"], "&")
  /\ track_type_filter = "Collaborations Only" => Contains(row["artist"], "&")

\* app.py lines 100-115: the sidebar filters, then the artist-level table
ApplyFilters ==
  /\ pc = "ready"
  /\ \E date_range \in { d \in DateChoices \X DateChoices : d[1] <= d[2] },
        album_filter \in SUBSET AlbumTypes,
        artist_filter \in SUBSET ColumnValues(track_data, "artist"),
        track_type_filter \in TrackTypes :
       /\ filtered_data' =
            SelectSeq(track_data,
                      LAMBDA row : KeepsRow(row, date_range, album_filter,
                                            artist_filter, track_type_filter))
       /\ filtered_artist_data' =
            create_artist_level_table(
              SelectSeq(track_data,
                        LAMBDA row : KeepsRow(row, date_range, album_filter,
                                              artist_filter, track_type_filter)))
  /\ pc' = "filtered"
  /\ UNCHANGED <<track_data, artist_data, renorm_data, kpi_result, network_graph>>

\* app.py line 122: the call returns, or raises and the script run ends
CalculateMarketKpis ==
  /\ pc = "filtered"
  /\ kpi_result' = calculate_market_kpis(filtered_data, filtered_artist_data)
  /\ filtered_data' = TrackTableAfterKpis(filtered_data)
  /\ pc' = IF total_tracks(filtered_data) = 0 THEN "failed" ELSE "kpis"
  /\ UNCHANGED <<track_data, artist_data, renorm_data, filtered_artist_data,
                 network_graph>>

\* app.py line 260
BuildNetwork ==
  /\ pc = "kpis"
  /\ network_graph' = build_artist_collaboration_network(filtered_data)
  /\ pc' = "done"
  /\ UNCHANGED <<track_data, artist_data, renorm_data, filtered_data,
                 filtered_artist_data, kpi_result>>

\* a widget change reruns the script: the cached tables are reused, the
\* rest is computed again
Rerun ==
  /\ pc \in {"done", "failed"}
  /\ pc' = "ready"
  /\ filtered_data' = <<>>
  /\ filtered_artist_data' = <<>>
  /\ kpi_result' = NoKpis
  /\ network_graph' = EmptyGraph
  /\ UNCHANGED <<track_data, artist_data, renorm_data>>

Next == LoadFullPipeline \/ ApplyFilters \/ CalculateMarketKpis \/ BuildNetwork \/ Rerun

Spec == Init /\ [][Next]_vars

\* ------------------------------------------- the normalizer on its own
InitNormalize ==
  /\ pc = "raw"
  /\ track_data \in { <<[artist |-> c]>> : c \in CreditStrings }
  /\ artist_data = <<>>
  /\ renorm_data = <<>>
  /\ filtered_data = <<>>
  /\ filtered_artist_data = <<>>
  /\ kpi_result = NoKpis
  /\ network_graph = EmptyGraph

NormalizeArtistNames ==
  /\ pc = "raw"
  /\ track_data' = normalize_artist_names(track_data)
  /\ pc' = "normalized"
  /\ UNCHANGED <<artist_data, renorm_data, filtered_data, filtered_artist_data,
                 kpi_result, network_graph>>

\* the table whose artist column holds the artist_clean values
CleanAsArtist(df) ==
  [r \in 1..Len(df) |-> [artist |-> df[r]["artist_clean"]]]

\* normalize_artist_names run again on the normalized values
Renormalize ==
  /\ pc = "normalized"
  /\ renorm_data' = normalize_artist_names(CleanAsArtist(track_data))
  /\ pc' = "renormalized"
  /\ UNCHANGED <<track_data, artist_data, filtered_data, filtered_artist_data,
                 kpi_result, network_graph>>

NextNormalize == NormalizeArtistNames \/ Renormalize

SpecNormalize == InitNormalize /\ [][NextNormalize]_vars

\* --------------------------------------------- the expander on its own
InitExpand ==
  /\ pc = "listed"
  /\ track_data \in TablesOf(ListRows, 0, MaxRows)
  /\ artist_data = <<>>
  /\ renorm_data = <<>>
  /\ filtered_data = <<>>
  /\ filtered_artist_data = <<>>
  /\ kpi_result = NoKpis
  /\ network_graph = EmptyGraph

CreateArtistLevelTable ==
  /\ pc = "listed"
  /\ artist_data' = create_artist_level_table(track_data)
  /\ pc' = "expanded"
  /\ UNCHANGED <<track_data, renorm_data, filtered_data, filtered_artist_data,
                 kpi_result, network_graph>>

NextExpand == CreateArtistLevelTable

SpecExpand == InitExpand /\ [][NextExpand]_vars

\* ------------------------------------------------------------------ claims
KpisReturned == pc \in {"kpis", "done"}

KpiCallEnded == pc \in {"kpis", "done", "failed"}

\* C1: calculate_market_kpis called with a track table of zero rows fails
\* with EmptyDatasetError and returns no KPI mapping.
C1_EmptyTableRaisesEmptyDatasetError ==
  (KpiCallEnded /\ Len(filtered_data) = 0) =>
    (kpi_result.status = "raised" /\ kpi_result.error = "EmptyDatasetError")

\* C2: after the KPI call every track's is_collaboration is true exactly
\* when its artist_list has more than one element, and CollaborationRatio is
\* the fraction of tracks whose artist_list has more than one element.
C2_CollaborationIsListLongerThanOne ==
  KpisReturned =>
    /\ \A r \in 1..Len(filtered_data) :
         filtered_data[r]["is_collaboration"] = (Len(filtered_data[r]["artist_list"]) > 1)
    /\ kpi_result.kpis.CollaborationRatio =
         Ratio(Cardinality({r \in 1..Len(filtered_data) :
                              Len(filtered_data[r]["artist_list"]) > 1}),
               Len(filtered_data))

AllTracksSameSingleArtist(df) ==
  \E a \in ColumnValues(create_artist_level_table(df), "artist_list") :
    \A r \in 1..Len(df) : df[r]["artist_list"] = <<a>>

\* C3: for a non-empty track table 0 < ACI <= 1, and ACI = 1 exactly when
\* all tracks credit the same single artist.
C3_AciInUnitInterval ==
  KpisReturned =>
    /\ 0 < kpi_result.kpis.ACI.num
    /\ kpi_result.kpis.ACI.num <= kpi_result.kpis.ACI.den
    /\ (kpi_result.kpis.ACI.num = kpi_result.kpis.ACI.den)
         <=> AllTracksSameSingleArtist(filtered_data)

\* the largest sum of counts over at most n artists
LargestSum(f, n) ==
  LET sums == { SumCounts(f, S) : S \in { T \in SUBSET DOMAIN f : Cardinality(T) <= n } }
  IN  CHOOSE m \in sums : \A k \in sums : m >= k

\* C4: for a non-empty track table Top5Share is the sum of the 5 largest
\* per-artist shares (all of them when there are fewer than 5 artists), is at
\* least the largest single share and is at most 1.
C4_Top5ShareBounds ==
  KpisReturned =>
    /\ kpi_result.kpis.Top5Share =
         Ratio(LargestSum(kpi_result.artist_frequency, 5), Len(filtered_data))
    /\ kpi_result.kpis.Top5Share.num >= LargestSum(kpi_result.artist_frequency, 1)
    /\ kpi_result.kpis.Top5Share.num <= kpi_result.kpis.Top5Share.den

\* C5: the artist_list produced by normalize_artist_names holds no
\* empty-string token.
C5_NoEmptyToken ==
  pc \in {"normalized", "renormalized"} =>
    \A r \in 1..Len(track_data) :
      \A i \in 1..Len(track_data[r]["artist_list"]) :
        track_data[r]["artist_list"][i] # <<>>

\* C6: the collaboration graph has no self-loop: every edge joins two
\* different artist names.
C6_NoSelfLoop ==
  pc = "done" => \A e \in network_graph.edges : Cardinality(e) = 2

SeqValues(l) == { l[i] : i \in 1..Len(l) }

\* the unordered pairs of artists that appear together in a track's list
\* of more than one element
CoAppearingPairs(df) ==
  { {x, y} : <<x, y>> \in
      { q \in UNION { SeqValues(df[r]["artist_list"]) \X SeqValues(df[r]["artist_list"]) :
                        r \in { t \in 1..Len(df) : Len(df[t]["artist_list"]) > 1 } } :
          q[1] # q[2] } }

\* C7: the edge set is exactly the set of unordered pairs of artists that
\* co-appear in some track's artist_list of length > 1, and the node set is
\* exactly the endpoints of those edges.
C7_EdgesAreCoAppearingPairs ==
  pc = "done" =>
    /\ network_graph.edges = CoAppearingPairs(filtered_data)
    /\ network_graph.nodes = UNION CoAppearingPairs(filtered_data)

RECURSIVE SumLens(_)
SumLens(df) ==
  IF df = <<>> THEN 0 ELSE Len(Head(df)["artist_list"]) + SumLens(Tail(df))

RECURSIVE PairRows(_)
PairRows(df) ==
  IF df = <<>> THEN <<>>
  ELSE [i \in 1..Len(Head(df)["artist_list"]) |->
          [song |-> Head(df)["song"], artist_list |-> Head(df)["artist_list"][i]]]
       \o PairRows(Tail(df))

\* C8: create_artist_level_table returns one row per (track, artist) pair:
\* its row count is the sum of len(artist_list), the rows of a track follow
\* the list order and copy the other fields, and a track with an empty
\* artist_list gives no row.
C8_OneRowPerTrackArtistPair ==
  pc = "expanded" =>
    /\ Len(artist_data) = SumLens(track_data)
    /\ artist_data = PairRows(track_data)

\* a table of a two-artist track followed by a solo track of another song
\* has been expanded into three rows
C8_Witness ==
  /\ pc = "expanded"
  /\ track_data = << [song |-> "s1", artist_list |-> << <<"b">>, <<"a">> >>],
                     [song |-> "s2", artist_list |-> << <<"a">> >>] >>
  /\ Len(artist_data) = 3
  /\ artist_data[1] = [song |-> "s1", artist_list |-> <<"b">>]
  /\ artist_data[2] = [song |-> "s1", artist_list |-> <<"a">>]
  /\ artist_data[3] = [song |-> "s2", artist_list |-> <<"a">>]

\* C9: normalizing the already-normalized artist_clean yields the same
\* artist_clean and the same artist_list as the first application.
C9_NormalizerIdempotent ==
  pc = "renormalized" =>
    \A r \in 1..Len(track_data) :
      /\ renorm_data[r]["artist_clean"] = track_data[r]["artist_clean"]
      /\ renorm_data[r]["artist_list"] = track_data[r]["artist_list"]

\* C9 as amended: for a credit that holds no space character, normalizing
\* the already-normalized artist_clean yields the same artist_clean and the
\* same artist_list as the first application.
C9_IdempotentWithoutSpaces ==
  pc = "renormalized" =>
    \A r \in 1..Len(track_data) :
      ~Contains(track_data[r]["artist"], " ") =>
        /\ renorm_data[r]["artist_clean"] = track_data[r]["artist_clean"]
        /\ renorm_data[r]["artist_list"] = track_data[r]["artist_list"]

\* a space-free credit that the first application rewrote into several
\* artists has been normalized a second time
C9_Witness ==
  /\ pc = "renormalized"
  /\ ~Contains(track_data[1]["artist"], " ")
  /\ track_data[1]["artist"] = <<"A", "a", "n", "d", "f", "t", ".", "b">>
  /\ track_data[1]["artist_clean"] = <<"a", "&", "&", "b">>
  /\ renorm_data[1]["artist_list"] = <<<<"a">>, <<>>, <<"b">>>>

\* C10: calculate_market_kpis leaves the track table and the artist-expanded
\* table passed to it with the same columns and values as before the call.
C10_KpiCallLeavesTablesUnchanged ==
  [][CalculateMarketKpis =>
       (filtered_data' = filtered_data /\ filtered_artist_data' = filtered_artist_data)]_vars
====
